---------------------------- MODULE Spec2Model ----------------------------
(* A model of mcp-civic-data: the HTTP fetch gateway (utils/http.py), the   *)
(* configuration snapshot (utils/config.py) and the provider tools          *)
(* (tools/*.py).  One tool invocation runs at a time; it is cut at its      *)
(* awaits: a tool's first action runs to its first fetch_json call (or to   *)
(* an early return), FetchJson is the gateway call, and the tool's resume   *)
(* action runs from the await to the next one or to the end.                *)
(*                                                                          *)
(* Python strings on which the code works character by character (state    *)
(* codes, response bodies, descriptions) are tuples of one-character        *)
(* strings.  A formatted text (an f-string) is a tuple of parts: Lit(s) for *)
(* literal text, Val(tag, v) for an interpolated value.                     *)
EXTENDS Integers, Sequences, FiniteSets, TLC

VARIABLES
    cfg,      \* utils/config.py: the process-wide Config instance
    pc,       \* "idle" | "fetch" | "resume" | "done": where the invocation stands
    tool,     \* the name of the tool invoked, "none" when idle
    args,     \* its arguments
    req,      \* the (url, params) of the pending fetch_json call
    gets,     \* log: the GET requests http_client issued for this invocation
    rets,     \* log: what each fetch_json call returned or raised
    loc,      \* the tool's local variables that live across an await
    out,      \* what the invocation returned or raised
    sched     \* the event loop: the frame of the suspended invocation, and
              \* whether the running one was suspended in the middle of its run

vars == <<cfg, pc, tool, args, req, gets, rets, loc, out, sched>>

-----------------------------------------------------------------------------
(* Values *)

\* Python None; an Optional value x is None or Some(x).
None == <<>>
Some(x) == <<x>>

Lit(s) == [t |-> "lit", v |-> s]
Val(tag, x) == [t |-> tag, v |-> x]

Min(a, b) == IF a <= b THEN a ELSE b

\* s[:n]
Take(s, n) == SubSeq(s, 1, Min(n, Len(s)))

\* s[k:]
Drop(s, k) == SubSeq(s, k + 1, Len(s))

Last(s) == s[Len(s)]

\* A text of n characters.
TextOfLen(n) == [i \in 1..n |-> "x"]

Return(v) == [kind |-> "return", value |-> v]
Raise(type, msg) == [kind |-> "raise", type |-> type, msg |-> msg]

NoReq == [url |-> None, params |-> None]
Request(url, params) == [url |-> Some(url), params |-> params]
Url(base, path, arg) == [base |-> base, path |-> path, arg |-> arg]

\* d.setdefault(k, x): a key the dict already holds keeps its value.
SetDefault(d, k, x) == [n \in DOMAIN d \cup {k} |-> IF n \in DOMAIN d THEN d[n] ELSE x]

\* A parameter dict with key k set to v (d[k] = v).
SetItem(d, k, x) == [n \in DOMAIN d \cup {k} |-> IF n = k THEN x ELSE d[n]]

-----------------------------------------------------------------------------
(* utils/config.py *)

DefaultTimeout == 30

\* os.environ.get(name) at process start: each key is absent, empty or set.
\* No tool reads both keys, so the environments set both alike.
Environments ==
    {[OPENWEATHER_API_KEY |-> None, NASA_API_KEY |-> None],
     [OPENWEATHER_API_KEY |-> Some(""), NASA_API_KEY |-> Some("")],
     [OPENWEATHER_API_KEY |-> Some("ow-key"), NASA_API_KEY |-> Some("nasa-key")]}

\* Config.__post_init__
ConfigInit ==
    \E env \in Environments :
        cfg = [openweather_api_key |-> env.OPENWEATHER_API_KEY,
               nasa_api_key |-> env.NASA_API_KEY,
               timeout |-> DefaultTimeout]

\* bool(x) of an Optional[str]
Truthy(x) == x # None /\ x[1] # ""

has_openweather_nonnull(c) == c.openweather_api_key # None

has_openweather(c) == Truthy(c.openweather_api_key)

-----------------------------------------------------------------------------
(* utils/http.py *)

\* The bodies' cut in the HTTP error message: e.response.text[:200].
BodyCut == 200

\* What http_client.get can do: raise an httpx exception or give a response
\* with a status, a body text, and the body's JSON value when it parses.
HttpxTimeouts == {"ConnectTimeout", "ReadTimeout"}

WireRaise(type) == [k |-> "raise", type |-> type]
WireResponse(status, text, json) ==
    [k |-> "response", status |-> status, text |-> text, json |-> json]

ShortBody == <<"N", "o", "t", " ", "F", "o", "u", "n", "d">>

\* The upstream's failures, whatever the endpoint.
WireFailures ==
    {WireRaise(t) : t \in {"ReadTimeout", "ConnectError"}}
    \cup {WireResponse(404, ShortBody, None), WireResponse(500, TextOfLen(BodyCut + 1), None),
          WireResponse(200, ShortBody, None)}

\* httpx Response.is_success, which raise_for_status tests
is_success(status) == 200 <= status /\ status <= 299

fetch_result(url, wire) ==
    IF wire.k = "raise" THEN
        IF wire.type \in HttpxTimeouts THEN
            Raise("Exception", <<Lit("Request timed out after "),
                                 Val("int", cfg.timeout), Lit("s: "), Val("url", url)>>)
        ELSE IF wire.type \in HttpxTimeouts \cup {"ConnectError", "TooManyRedirects"} THEN
            Raise("Exception", <<Lit("Request failed: "), Val("exc", wire.type)>>)
        ELSE Raise(wire.type, <<>>)
    ELSE IF ~is_success(wire.status) THEN
        Raise("Exception", <<Lit("HTTP "), Val("int", wire.status), Lit(": "),
                             Val("text", Take(wire.text, BodyCut))>>)
    ELSE IF wire.json = None THEN
        Raise("JSONDecodeError", <<>>)
    ELSE Return(wire.json[1])

\* fetch_json as a whole: the GETs it issues and its outcome.
fetch_json_retry(r, wire) ==
    [gets |-> IF fetch_result(r.url[1], wire).kind = "raise" THEN <<r, r>> ELSE <<r>>,
     ret |-> fetch_result(r.url[1], wire)]

fetch_json(r, wire) ==
    [gets |-> <<r>>, ret |-> fetch_result(r.url[1], wire)]

-----------------------------------------------------------------------------
(* How a tool reaches and leaves its awaits *)

\* The tool calls fetch_json(url, params) and is suspended.
Await(url, params) ==
    /\ pc' = "fetch"
    /\ req' = Request(url, params)

\* The tool ends with a result.
Finish(result) ==
    /\ pc' = "done"
    /\ req' = NoReq
    /\ out' = result

Start(name, a) ==
    /\ pc = "idle"
    /\ tool' = name
    /\ args' = a

Resumed(name) == pc = "resume" /\ tool = name

fetched == Last(rets)

\* An exception of fetch_json that the tool does not catch.
Propagate == Finish(fetched)

-----------------------------------------------------------------------------
(* tools/weather.py *)

NOAA_BASE == "https://api.weather.gov"
OPENWEATHER_BASE == "https://api.openweathermap.org"

OpenWeatherDenied ==
    <<Lit("Error: OpenWeather tools require "), Lit("OPENWEATHER_API_KEY"),
      Lit(" environment variable")>>

OpenWeatherDeniedRaw ==
    <<Lit("OpenWeather requires "), Lit("OPENWEATHER_API_KEY"),
      Lit(" environment variable")>>


\* The current-weather payloads: one with every key the tool subscripts, one
\* without (an error document).
OpenWeatherPayloads ==
    {[shape |-> "weather", name |-> "London", country |-> "GB",
      description |-> "light rain", wind |-> Some(4)],
     [shape |-> "weather", name |-> "London", country |-> "GB",
      description |-> "light rain", wind |-> None],
     [shape |-> "message"]}

get_global_weather ==
    \E city \in {"London"}, country_code \in {"", "GB"} :
        /\ Start("get_global_weather", [city |-> city, country_code |-> country_code])
        /\ IF ~has_openweather(cfg)
           THEN Finish(Return(OpenWeatherDenied))
           ELSE /\ Await(Url(OPENWEATHER_BASE, "/data/2.5/weather", <<>>),
                         Some([q |-> IF country_code # "" THEN <<city, ",", country_code>>
                                                        ELSE <<city>>,
                               appid |-> cfg.openweather_api_key[1],
                               units |-> "metric"]))
                /\ UNCHANGED out
        /\ UNCHANGED <<cfg, sched, gets, rets, loc>>

get_global_weather_resume ==
    /\ Resumed("get_global_weather")
    /\ IF fetched.kind = "raise" THEN Propagate
       ELSE LET data == fetched.value IN
            IF data.shape # "weather" THEN Finish(Raise("KeyError", <<Lit("weather")>>))
            ELSE Finish(Return(<<Lit("**Weather in "), Val("str", data.name), Lit(", "),
                                 Val("str", data.country), Lit("**\n\nConditions: "),
                                 Val("capitalize", data.description),
                                 Lit("\nWind: "),
                                 IF data.wind = None THEN Lit("N/A")
                                                     ELSE Val("num", data.wind[1]),
                                 Lit(" m/s")>>))
    /\ UNCHANGED <<cfg, sched, tool, args, gets, rets, loc>>

\* The params arguments of the raw-query tools.
RawParams ==
    {None, Some(<<>>), Some([q |-> "Paris"]),
     Some([appid |-> "callers", api_key |-> "callers", format |-> "xml"])}

\* params or {}
OrEmpty(p) == IF p = None \/ p[1] = <<>> THEN <<>> ELSE p[1]


query_openweather ==
    \E endpoint \in {"/data/2.5/weather"}, params \in RawParams :
        /\ Start("query_openweather", [endpoint |-> endpoint, params |-> params])
        /\ IF ~has_openweather(cfg)
           THEN Finish(Return([error |-> OpenWeatherDeniedRaw]))
           ELSE /\ Await(Url(OPENWEATHER_BASE, endpoint, <<>>),
                         Some(SetItem(OrEmpty(params), "appid",
                                      cfg.openweather_api_key[1])))
                /\ UNCHANGED out
        /\ UNCHANGED <<cfg, sched, gets, rets, loc>>

query_openweather_resume ==
    /\ Resumed("query_openweather")
    /\ Finish(fetched)
    /\ UNCHANGED <<cfg, sched, tool, args, gets, rets, loc>>

-----------------------------------------------------------------------------
(* Python str and int operations the tools use *)

LowerLetters ==
    <<"a", "b", "c", "d", "e", "f", "g", "h", "i", "j", "k", "l", "m",
      "n", "o", "p", "q", "r", "s", "t", "u", "v", "w", "x", "y", "z">>
UpperLetters ==
    <<"A", "B", "C", "D", "E", "F", "G", "H", "I", "J", "K", "L", "M",
      "N", "O", "P", "Q", "R", "S", "T", "U", "V", "W", "X", "Y", "Z">>
Digits == <<"0", "1", "2", "3", "4", "5", "6", "7", "8", "9">>

IndexIn(seq, c) == CHOOSE i \in DOMAIN seq : seq[i] = c
Occurs(seq, c) == \E i \in DOMAIN seq : seq[i] = c

\* str.upper(), one character: the characters it gives. The sharp s has no
\* single upper-case character and becomes "SS".
upper_char(c) ==
    IF Occurs(LowerLetters, c) THEN <<UpperLetters[IndexIn(LowerLetters, c)]>>
    ELSE IF c = "ß" THEN <<"S", "S">>
    ELSE <<c>>

RECURSIVE upper(_)
upper(s) == IF s = <<>> THEN <<>> ELSE upper_char(s[1]) \o upper(Tail(s))

\* str.lower(), for building the arguments
lower_char(c) ==
    IF Occurs(UpperLetters, c) THEN LowerLetters[IndexIn(UpperLetters, c)] ELSE c
lower(s) == [i \in DOMAIN s |-> lower_char(s[i])]

\* int(s) of a string of decimal digits
RECURSIVE int(_)
int(s) ==
    IF s = <<>> THEN 0
    ELSE 10 * int(SubSeq(s, 1, Len(s) - 1)) + (IndexIn(Digits, s[Len(s)]) - 1)

\* bool(x) of a JSON string or null
TruthyText(x) == x # None /\ x[1] # <<>>

\* int(x) if x else 0
int_or_zero(x) == IF TruthyText(x) THEN int(x[1]) ELSE 0

Abs(x) == IF x < 0 THEN -x ELSE x

\* f"{num/den:.1f}": the tenths nearest to num/den (a tie falls as the binary
\* floating-point quotient falls), or the ZeroDivisionError of num/den.
format_1f(num, den) ==
    IF den = 0 THEN {Val("raise", "ZeroDivisionError")}
    ELSE LET n == IF den < 0 THEN -num ELSE num
             d == Abs(den)
             q == (10 * n) \div d
         IN  {Val(".1f", t) : t \in {u \in {q, q + 1} : 2 * Abs(10 * n - u * d) <= d}}

-----------------------------------------------------------------------------
(* tools/census.py *)

CENSUS_BASE == "https://api.census.gov/data"
ACS_YEAR == "2022"

STATE_FIPS_ITEMS ==
    <<
      << <<"A", "L">>, <<"0", "1">> >>, << <<"A", "K">>, <<"0", "2">> >>,
      << <<"A", "Z">>, <<"0", "4">> >>, << <<"A", "R">>, <<"0", "5">> >>,
      << <<"C", "A">>, <<"0", "6">> >>, << <<"C", "O">>, <<"0", "8">> >>,
      << <<"C", "T">>, <<"0", "9">> >>, << <<"D", "E">>, <<"1", "0">> >>,
      << <<"F", "L">>, <<"1", "2">> >>, << <<"G", "A">>, <<"1", "3">> >>,
      << <<"H", "I">>, <<"1", "5">> >>, << <<"I", "D">>, <<"1", "6">> >>,
      << <<"I", "L">>, <<"1", "7">> >>, << <<"I", "N">>, <<"1", "8">> >>,
      << <<"I", "A">>, <<"1", "9">> >>, << <<"K", "S">>, <<"2", "0">> >>,
      << <<"K", "Y">>, <<"2", "1">> >>, << <<"L", "A">>, <<"2", "2">> >>,
      << <<"M", "E">>, <<"2", "3">> >>, << <<"M", "D">>, <<"2", "4">> >>,
      << <<"M", "A">>, <<"2", "5">> >>, << <<"M", "I">>, <<"2", "6">> >>,
      << <<"M", "N">>, <<"2", "7">> >>, << <<"M", "S">>, <<"2", "8">> >>,
      << <<"M", "O">>, <<"2", "9">> >>, << <<"M", "T">>, <<"3", "0">> >>,
      << <<"N", "E">>, <<"3", "1">> >>, << <<"N", "V">>, <<"3", "2">> >>,
      << <<"N", "H">>, <<"3", "3">> >>, << <<"N", "J">>, <<"3", "4">> >>,
      << <<"N", "M">>, <<"3", "5">> >>, << <<"N", "Y">>, <<"3", "6">> >>,
      << <<"N", "C">>, <<"3", "7">> >>, << <<"N", "D">>, <<"3", "8">> >>,
      << <<"O", "H">>, <<"3", "9">> >>, << <<"O", "K">>, <<"4", "0">> >>,
      << <<"O", "R">>, <<"4", "1">> >>, << <<"P", "A">>, <<"4", "2">> >>,
      << <<"R", "I">>, <<"4", "4">> >>, << <<"S", "C">>, <<"4", "5">> >>,
      << <<"S", "D">>, <<"4", "6">> >>, << <<"T", "N">>, <<"4", "7">> >>,
      << <<"T", "X">>, <<"4", "8">> >>, << <<"U", "T">>, <<"4", "9">> >>,
      << <<"V", "T">>, <<"5", "0">> >>, << <<"V", "A">>, <<"5", "1">> >>,
      << <<"W", "A">>, <<"5", "3">> >>, << <<"W", "V">>, <<"5", "4">> >>,
      << <<"W", "I">>, <<"5", "5">> >>, << <<"W", "Y">>, <<"5", "6">> >>,
      << <<"D", "C">>, <<"1", "1">> >>, << <<"P", "R">>, <<"7", "2">> >>
    >>

\* The dict STATE_FIPS
STATE_FIPS ==
    [k \in {STATE_FIPS_ITEMS[i][1] : i \in DOMAIN STATE_FIPS_ITEMS} |->
        STATE_FIPS_ITEMS[CHOOSE i \in DOMAIN STATE_FIPS_ITEMS : STATE_FIPS_ITEMS[i][1] = k][2]]

\* d.get(k, default)
DictGet(d, k, default) == IF k \in DOMAIN d THEN d[k] ELSE default

state_fips_no_upper(state) == DictGet(STATE_FIPS, state, state)

\* state_code = state.upper(); fips = STATE_FIPS.get(state_code, state_code)
state_fips(state) == DictGet(STATE_FIPS, upper(state), upper(state))

ACS_URL(variables, geo) ==
    Url(CENSUS_BASE, "/2022/acs/acs5?get={variables}&for={geo}", <<variables, geo>>)

\* The state arguments: every code of the table in upper case, in lower case,
\* some in mixed case, and arguments the table does not hold.
StateArgs ==
    DOMAIN STATE_FIPS
    \cup {lower(k) : k \in DOMAIN STATE_FIPS}
    \cup {<<k[1], lower_char(k[2])>> : k \in {<<"C", "A">>, <<"T", "X">>, <<"D", "C">>}}
    \cup {<<"Z", "Z">>, <<"z", "z">>, <<"0", "6">>, <<"c">>, <<>>, <<"C", "a", "l">>}
CountyArgs == {<<>>, <<"0", "0", "1">>}

\* The rows a population response holds after its header row.
MaxRows == 21

CensusHeader == <<Some(<<"N", "A", "M", "E">>)>>
PopulationRow(i) ==
    <<Some(<<"r", Digits[(i % 10) + 1]>>),
      IF i % 3 = 0 THEN None ELSE IF i % 3 = 1 THEN Some(<<>>) ELSE Some(<<"4", "2">>)>>

\* The cap of get_population: rows[:20].
PopulationCap == 20

get_population ==
    \E state \in StateArgs, county \in CountyArgs :
        /\ Start("get_population", [state |-> state, county |-> county])
        /\ LET fips == state_fips(state)
               geo == IF county # <<>>
                      THEN <<Lit("county:*&in=state:"), Val("str", fips)>>
                      ELSE <<Lit("state:"), Val("str", fips)>>
           IN  Await(ACS_URL("NAME,B01003_001E", geo), None)
        /\ UNCHANGED <<cfg, sched, gets, rets, loc, out>>

population_line(row) ==
    <<Lit("- "), Val("str", row[1]), Lit(": "), Val("int,", int_or_zero(row[2]))>>

get_population_resume ==
    /\ Resumed("get_population")
    /\ IF fetched.kind = "raise" THEN Propagate
       ELSE LET data == fetched.value IN
            IF data = <<>> THEN Finish(Raise("IndexError", <<>>))
            ELSE LET rows == Drop(data, 1)
                     shown == Take(rows, PopulationCap)
                 IN  Finish(Return(
                        [sep |-> "\n",
                         items |-> <<<<Lit("Population Data ("), Lit(ACS_YEAR),
                                       Lit(" ACS 5-Year Estimates):\n")>>>>
                                   \o [i \in DOMAIN shown |-> population_line(shown[i])]]))
    /\ UNCHANGED <<cfg, sched, tool, args, gets, rets, loc>>

\* The first data rows of a demographics response: NAME, total population,
\* median age, median income, white, black, asian, hispanic.
Num(s) == Some(s)
DemographicsRows ==
    {<<Some(<<"r">>), total, Num(<<"3", "8", ".", "5">>), Num(<<"7", "0">>),
       white, black, Num(<<"1">>), None>> :
        total \in {None, Num(<<>>), Num(<<"0">>), Num(<<"3">>), Num(<<"2", "0", "0">>)},
        white \in {Num(<<>>), Num(<<"1">>), Num(<<"5", "0">>)},
        black \in {Num(<<"2", "0", "1">>)}}

pct_unguarded(n, total_pop) ==
    {<<f, Lit("%")>> : f \in format_1f(n * 100, total_pop)}

\* def pct(n): the strings it can give
pct(n, total_pop) ==
    IF total_pop # 0
    THEN {<<f, Lit("%")>> : f \in format_1f(n * 100, total_pop)}
    ELSE {<<Lit("N/A")>>}

Raises(text) == \E i \in DOMAIN text : text[i].t = "raise"

get_demographics ==
    \E state \in StateArgs, county \in CountyArgs :
        /\ Start("get_demographics", [state |-> state, county |-> county])
        /\ LET fips == state_fips(state)
               geo == IF county # <<>>
                      THEN <<Lit("county:"), Val("str", county), Lit("&in=state:"),
                             Val("str", fips)>>
                      ELSE <<Lit("state:"), Val("str", fips)>>
           IN  Await(ACS_URL("NAME,B01003_001E,B01002_001E,B19013_001E,B02001_002E,B02001_003E,B02001_005E,B03001_003E",
                             geo), None)
        /\ UNCHANGED <<cfg, sched, gets, rets, loc, out>>

get_demographics_resume ==
    /\ Resumed("get_demographics")
    /\ IF fetched.kind = "raise" THEN Propagate
       ELSE LET data == fetched.value IN
            IF Len(data) < 2 THEN Finish(Raise("IndexError", <<>>))
            ELSE LET row == data[2]
                     total_pop == int_or_zero(row[2])
                     white == int_or_zero(row[5])
                     black == int_or_zero(row[6])
                     asian == int_or_zero(row[7])
                     hispanic == int_or_zero(row[8])
                 IN  \E pw \in pct(white, total_pop), pb \in pct(black, total_pop),
                        pa \in pct(asian, total_pop), ph \in pct(hispanic, total_pop) :
                       IF Raises(pw) \/ Raises(pb) \/ Raises(pa) \/ Raises(ph)
                       THEN Finish(Raise("ZeroDivisionError", <<>>))
                       ELSE Finish(Return(
                              <<Lit("**Demographics for "), Val("str", row[1]),
                                Lit("**\n\n**Population**: "), Val("int,", total_pop),
                                Lit("\n**Median Age**: "),
                                IF TruthyText(row[3]) THEN Val("float", row[3][1])
                                                      ELSE Val("int", 0),
                                Lit("\n**Median Household Income**: $"),
                                Val("int,", int_or_zero(row[4])),
                                Lit("\n\n**Race/Ethnicity**:\n- White: "),
                                Val("int,", white), Lit(" ("), Val("str", pw),
                                Lit(")\n- Black: "),
                                Val("int,", black), Lit(" ("), Val("str", pb),
                                Lit(")\n- Asian: "),
                                Val("int,", asian), Lit(" ("), Val("str", pa),
                                Lit(")\n- Hispanic/Latino: "),
                                Val("int,", hispanic), Lit(" ("), Val("str", ph),
                                Lit(")")>>))
    /\ UNCHANGED <<cfg, sched, tool, args, gets, rets, loc>>

\* The first data rows of a housing response: NAME, total units, occupied,
\* vacant, median value, median rent.
HousingRows ==
    {<<Some(<<"r">>), total, Num(<<"9">>), vacant, Num(<<"7", "0">>), None>> :
        total \in {None, Num(<<>>), Num(<<"0">>), Num(<<"3">>), Num(<<"2", "0", "0">>)},
        vacant \in {Num(<<>>), Num(<<"1">>), Num(<<"5", "0">>)}}

\* vacancy_rate = (vacant / total_units * 100) if total_units else 0, as
\* f"{vacancy_rate:.1f}" shows it
vacancy_rate(vacant, total_units) ==
    IF total_units # 0 THEN format_1f(vacant * 100, total_units) ELSE {Val(".1f", 0)}

get_housing_stats ==
    \E state \in StateArgs, county \in CountyArgs :
        /\ Start("get_housing_stats", [state |-> state, county |-> county])
        /\ LET fips == state_fips(state)
               geo == IF county # <<>>
                      THEN <<Lit("county:"), Val("str", county), Lit("&in=state:"),
                             Val("str", fips)>>
                      ELSE <<Lit("state:"), Val("str", fips)>>
           IN  Await(ACS_URL("NAME,B25001_001E,B25002_002E,B25002_003E,B25077_001E,B25064_001E",
                             geo), None)
        /\ UNCHANGED <<cfg, sched, gets, rets, loc, out>>

get_housing_stats_resume ==
    /\ Resumed("get_housing_stats")
    /\ IF fetched.kind = "raise" THEN Propagate
       ELSE LET data == fetched.value IN
            IF Len(data) < 2 THEN Finish(Raise("IndexError", <<>>))
            ELSE LET row == data[2]
                     total_units == int_or_zero(row[2])
                     occupied == int_or_zero(row[3])
                     vacant == int_or_zero(row[4])
                 IN  \E rate \in vacancy_rate(vacant, total_units) :
                       IF rate.t = "raise"
                       THEN Finish(Raise("ZeroDivisionError", <<>>))
                       ELSE Finish(Return(
                              <<Lit("**Housing Statistics for "), Val("str", row[1]),
                                Lit("**\n\n**Total Housing Units**: "),
                                Val("int,", total_units),
                                Lit("\n**Occupied**: "), Val("int,", occupied),
                                Lit("\n**Vacant**: "), Val("int,", vacant), Lit(" ("),
                                rate, Lit("% vacancy rate)\n\n**Median Home Value**: $"),
                                Val("int,", int_or_zero(row[5])),
                                Lit("\n**Median Gross Rent**: $"),
                                Val("int,", int_or_zero(row[6])), Lit("/month")>>))
    /\ UNCHANGED <<cfg, sched, tool, args, gets, rets, loc>>

-----------------------------------------------------------------------------
(* tools/weather.py: the NOAA tools *)

\* The lists an upstream response holds have 0..MaxItems items.
MaxItems == 51

\* The forecast periods a response holds: 0..MaxPeriods.
MaxPeriods == 7

\* periods[:6]
ForecastCap == 6

\* alerts[:10]
AlertCap == 10

\* The forecast URLs that /points can name.
ForecastUrls ==
    {Url(NOAA_BASE, "/gridpoints/LWX/97,71/forecast", <<>>),
     Url(NOAA_BASE, "/gridpoints/OKX/33,35/forecast", <<>>)}

\* The answers to /points: with properties.forecast, or without.
PointsPayloads ==
    {[shape |-> "point", forecast |-> u] : u \in ForecastUrls} \cup {[shape |-> "problem"]}

Period(i) == [name |-> i, detailedForecast |-> "Sunny"]
ForecastPayloads ==
    {[shape |-> "problem"]}
    \cup {[shape |-> "forecast", periods |-> [i \in 1..n |-> Period(i)]] : n \in 0..MaxPeriods}

get_weather_forecast ==
    \E latitude \in {38}, longitude \in {-77} :
        /\ Start("get_weather_forecast", [latitude |-> latitude, longitude |-> longitude])
        /\ Await(Url(NOAA_BASE, "/points/{latitude},{longitude}", <<latitude, longitude>>),
                 None)
        /\ loc' = [step |-> "points"]
        /\ UNCHANGED <<cfg, sched, gets, rets, out>>

period_text(period) ==
    <<Lit("**"), Val("str", period.name), Lit("**: "),
      Val("str", period.detailedForecast)>>

\* The forecast URL built from the grid of Washington, whatever /points said.
forecast_url_fixed(points_data) == Url(NOAA_BASE, "/gridpoints/LWX/97,71/forecast", <<>>)

\* forecast_url = points_data["properties"]["forecast"]
forecast_url(points_data) == points_data.forecast

\* After the first await: the forecast URL is read and fetched.
get_weather_forecast_points ==
    /\ Resumed("get_weather_forecast")
    /\ loc.step = "points"
    /\ IF fetched.kind = "raise" THEN Propagate /\ UNCHANGED loc
       ELSE LET points_data == fetched.value IN
            IF points_data.shape # "point"
            THEN Finish(Raise("KeyError", <<Lit("properties")>>)) /\ UNCHANGED loc
            ELSE /\ Await(forecast_url(points_data), None)
                 /\ loc' = [step |-> "forecast"]
                 /\ UNCHANGED out
    /\ UNCHANGED <<cfg, sched, tool, args, gets, rets>>

\* After the second await.
get_weather_forecast_resume ==
    /\ Resumed("get_weather_forecast")
    /\ loc.step = "forecast"
    /\ IF fetched.kind = "raise" THEN Propagate
       ELSE LET forecast_data == fetched.value IN
            IF forecast_data.shape # "forecast"
            THEN Finish(Raise("KeyError", <<Lit("properties")>>))
            ELSE LET shown == Take(forecast_data.periods, ForecastCap) IN
                 Finish(Return(
                    [sep |-> "\n\n",
                     items |-> <<<<Lit("Weather forecast for "),
                                   Val("float", args.latitude), Lit(", "),
                                   Val("float", args.longitude), Lit(":\n")>>>>
                               \o [i \in DOMAIN shown |-> period_text(shown[i])]]))
    /\ UNCHANGED <<cfg, sched, tool, args, gets, rets, loc>>

Alert(i) ==
    [event |-> i, severity |-> "Severe",
     areaDesc |-> IF i % 2 = 0 THEN None ELSE Some("Coast"),
     headline |-> IF i % 3 = 0 THEN None ELSE Some("Warning")]

\* The answers to /alerts/active: without "features", or with 0..MaxItems.
AlertsPayloads ==
    {[features |-> None]}
    \cup {[features |-> Some([i \in 1..n |-> Alert(i)])] : n \in 0..MaxItems}

\* d.get(key, default) of an optional field
GetOr(field, default) == IF field = None THEN default ELSE field[1]

get_weather_alerts ==
    \E state0 \in {<<"C", "A">>, <<"t", "x">>, <<"N", "y">>, <<"C">>, <<>>, <<"C", "a", "l">>,
                   <<"ß">>, <<"ß", "a">>} :
        /\ Start("get_weather_alerts", [state |-> state0])
        /\ LET state == upper(state0) IN
           IF Len(state) # 2
           THEN Finish(Return(<<Lit("Error: State must be a 2-letter code (e.g., 'CA', 'TX')")>>))
           ELSE /\ Await(Url(NOAA_BASE, "/alerts/active", <<>>), Some([area |-> state]))
                /\ UNCHANGED out
        /\ UNCHANGED <<cfg, sched, gets, rets, loc>>

alert_text(alert) ==
    <<Lit("**"), Val("str", alert.event), Lit("** ("), Val("str", alert.severity),
      Lit(")\nAreas: "), Val("str", GetOr(alert.areaDesc, "N/A")), Lit("\n"),
      Val("str", GetOr(alert.headline, ""))>>

get_weather_alerts_resume ==
    /\ Resumed("get_weather_alerts")
    /\ IF fetched.kind = "raise" THEN Propagate
       ELSE LET state == upper(args.state)
                alerts == GetOr(fetched.value.features, <<>>)
            IN  IF alerts = <<>>
                THEN Finish(Return(<<Lit("No active weather alerts for "), Val("str", state)>>))
                ELSE LET shown == Take(alerts, AlertCap) IN
                     Finish(Return(
                        [sep |-> "\n\n---\n\n",
                         items |-> <<<<Lit("Active weather alerts for "),
                                       Val("str", state), Lit(":\n")>>>>
                                   \o [i \in DOMAIN shown |-> alert_text(shown[i])]]))
    /\ UNCHANGED <<cfg, sched, tool, args, gets, rets, loc>>

\* query_noaa: the gateway's value or exception, as it is
query_noaa ==
    \E endpoint \in {"/alerts/active"}, params \in RawParams :
        /\ Start("query_noaa", [endpoint |-> endpoint, params |-> params])
        /\ Await(Url(NOAA_BASE, endpoint, <<>>), params)
        /\ UNCHANGED <<cfg, sched, gets, rets, loc, out>>

query_noaa_resume ==
    /\ Resumed("query_noaa")
    /\ Finish(fetched)
    /\ UNCHANGED <<cfg, sched, tool, args, gets, rets, loc>>

-----------------------------------------------------------------------------
(* tools/nasa.py *)

NASA_BASE == "https://api.nasa.gov"
NASA_IMAGES_URL == "https://images-api.nasa.gov/search"

\* The key as configured, "DEMO_KEY" only when the variable is not set.
get_api_key_unset_only ==
    IF cfg.nasa_api_key = None THEN "DEMO_KEY" ELSE cfg.nasa_api_key[1]

\* config.nasa_api_key or "DEMO_KEY"
get_api_key == IF Truthy(cfg.nasa_api_key) THEN cfg.nasa_api_key[1] ELSE "DEMO_KEY"

ApodPayloads ==
    {[shape |-> "apod", media_type |-> mt, url |-> u] :
        mt \in {None, Some("image"), Some("video")}, u \in {None, Some("https://apod")}}
    \cup {[shape |-> "error"]}

get_astronomy_photo ==
    \E date \in {"", "2024-01-01"} :
        /\ Start("get_astronomy_photo", [date |-> date])
        /\ LET params == [api_key |-> get_api_key] IN
           Await(Url(NASA_BASE, "/planetary/apod", <<>>),
                 Some(IF date # "" THEN SetItem(params, "date", date) ELSE params))
        /\ UNCHANGED <<cfg, sched, gets, rets, loc, out>>

get_astronomy_photo_resume ==
    /\ Resumed("get_astronomy_photo")
    /\ IF fetched.kind = "raise" THEN Propagate
       ELSE LET data == fetched.value IN
            IF data.shape # "apod" THEN Finish(Raise("KeyError", <<Lit("title")>>))
            ELSE LET media_type == GetOr(data.media_type, "image") IN
                 Finish(Return(<<Lit("**"), Val("str", "title"), Lit("**\nDate: "),
                                 Val("str", "date"), Lit("\n\n"), Val("str", "explanation"),
                                 Lit("\n\n"),
                                 Lit(IF media_type = "image" THEN "Image" ELSE "Video"),
                                 Lit(": "), Val("str", GetOr(data.url, "N/A"))>>))
    /\ UNCHANGED <<cfg, sched, tool, args, gets, rets, loc>>

\* photos[:10] and items[:10]
PhotoCap == 10
ImageCap == 10

\* The rover-photo sol used when neither sol nor earth_date is given.
DefaultSol == 1000

Photo(i) == [camera |-> "Mast Camera", sol |-> i, earth_date |-> "2015-05-30", img_src |-> i]
PhotosPayloads ==
    {[photos |-> None]}
    \cup {[photos |-> Some([i \in 1..n |-> Photo(i)])] : n \in 0..MaxItems}

get_mars_rover_photos ==
    \E rover0 \in {<<"S", "p", "i", "r", "i", "t">>}, sol \in {None, Some(5)},
       earth_date \in {"", "2015-05-30"}, camera \in {<<>>, <<"F", "h", "a", "z">>} :
        /\ Start("get_mars_rover_photos",
                 [rover |-> rover0, sol |-> sol, earth_date |-> earth_date, camera |-> camera])
        /\ LET rover == lower(rover0)
               p0 == [api_key |-> get_api_key]
               p1 == IF sol # None THEN SetItem(p0, "sol", sol[1])
                     ELSE IF earth_date # "" THEN SetItem(p0, "earth_date", earth_date)
                     ELSE SetItem(p0, "sol", DefaultSol)
               p2 == IF camera # <<>> THEN SetItem(p1, "camera", lower(camera)) ELSE p1
           IN  Await(Url(NASA_BASE, "/mars-photos/api/v1/rovers/{rover}/photos", <<rover>>),
                     Some(p2))
        /\ UNCHANGED <<cfg, sched, gets, rets, loc, out>>

photo_text(photo) ==
    <<Lit("- Camera: "), Val("str", photo.camera), Lit("\n  Sol: "), Val("int", photo.sol),
      Lit(" | Earth Date: "), Val("str", photo.earth_date), Lit("\n  URL: "),
      Val("str", photo.img_src)>>

get_mars_rover_photos_resume ==
    /\ Resumed("get_mars_rover_photos")
    /\ IF fetched.kind = "raise" THEN Propagate
       ELSE LET rover == lower(args.rover)
                photos == GetOr(fetched.value.photos, <<>>)
            IN  IF photos = <<>>
                THEN Finish(Return(<<Lit("No photos found for "), Val("str", rover),
                                     Lit(" with the specified parameters")>>))
                ELSE LET shown == Take(photos, PhotoCap) IN
                     Finish(Return(
                        [sep |-> "\n\n",
                         items |-> <<<<Lit("**Mars Rover Photos - "),
                                       Val("capitalize", rover), Lit("**\n")>>,
                                     <<Lit("Found "), Val("int", Len(photos)),
                                       Lit(" photos\n")>>>>
                                   \o [i \in DOMAIN shown |-> photo_text(shown[i])]]))
    /\ UNCHANGED <<cfg, sched, tool, args, gets, rets, loc>>

\* An item of the collection: its "data" key missing or a list of one record
\* whose keys come and go, its "links" empty or one link.
ImageItem(i) ==
    [data |-> IF i % 5 = 0 THEN None
              ELSE Some(<<[title |-> IF i % 2 = 0 THEN None ELSE Some(i),
                           date_created |-> IF i % 4 = 0 THEN None
                                            ELSE Some(TextOfLen(11)),
                           description |-> IF i % 3 = 0 THEN None
                                           ELSE Some(TextOfLen(201))]>>),
     links |-> IF i % 3 = 0 THEN <<>> ELSE <<[href |-> Some(i)]>>]
ImagesPayloads ==
    {[collection |-> None]}
    \cup {[collection |-> Some([items |-> [i \in 1..n |-> ImageItem(i)]])] : n \in 0..MaxItems}

search_nasa_images ==
    \E query \in {"apollo 11"}, media_type \in {"image", "video"} :
        /\ Start("search_nasa_images", [query |-> query, media_type |-> media_type])
        /\ Await(Url(NASA_IMAGES_URL, "", <<>>),
                 Some([q |-> query, media_type |-> media_type]))
        /\ UNCHANGED <<cfg, sched, gets, rets, loc, out>>

image_text(item) ==
    LET item_data == IF item.data = None
                     THEN [title |-> None, date_created |-> None, description |-> None]
                     ELSE item.data[1][1]
    IN  <<Lit("**"), Val("str", GetOr(item_data.title, "Untitled")),
          Lit("**\nDate: "),
          Val("text", Take(GetOr(item_data.date_created, <<"N", "/", "A">>), 10)),
          Lit("\nDescription: "),
          Val("text", Take(GetOr(item_data.description, <<"N", "/", "A">>), 200)),
          Lit("...\nPreview: "),
          Val("str", IF item.links # <<>> THEN GetOr(item.links[1].href, "N/A")
                     ELSE "N/A")>>

search_nasa_images_resume ==
    /\ Resumed("search_nasa_images")
    /\ IF fetched.kind = "raise" THEN Propagate
       ELSE LET items == IF fetched.value.collection = None THEN <<>>
                         ELSE fetched.value.collection[1].items
            IN  IF items = <<>>
                THEN Finish(Return(<<Lit("No results found for '"), Val("str", args.query),
                                     Lit("'")>>))
                ELSE LET shown == Take(items, ImageCap) IN
                     Finish(Return(
                        [sep |-> "\n\n---\n\n",
                         items |-> <<<<Lit("**NASA Image Search: '"),
                                       Val("str", args.query), Lit("'**\n")>>,
                                     <<Lit("Found "), Val("int", Len(items)),
                                       Lit(" results\n")>>>>
                                   \o [i \in DOMAIN shown |-> image_text(shown[i])]]))
    /\ UNCHANGED <<cfg, sched, tool, args, gets, rets, loc>>

query_nasa ==
    \E endpoint \in {"/planetary/apod"}, params \in RawParams :
        /\ Start("query_nasa", [endpoint |-> endpoint, params |-> params])
        /\ Await(Url(NASA_BASE, endpoint, <<>>),
                 Some(SetItem(OrEmpty(params), "api_key", get_api_key)))
        /\ UNCHANGED <<cfg, sched, gets, rets, loc, out>>

query_nasa_resume ==
    /\ Resumed("query_nasa")
    /\ Finish(fetched)
    /\ UNCHANGED <<cfg, sched, tool, args, gets, rets, loc>>

-----------------------------------------------------------------------------
(* tools/datagov.py *)

DATAGOV_BASE == "https://catalog.data.gov/api/3"

\* rows = min(rows, 50) and limit = min(limit, 50)
SearchCap == 50

\* notes[:200], desc[:200]
NotesCut == 200

\* resources[:10] and distributions[:10]
ResourceCap == 10

\* metadata_modified[:10]
DateCut == 10

SomeDate == <<"2", "0", "2", "4", "-", "0", "1", "-", "0", "2", "T", "0", "3">>
Unknown == <<"U", "n", "k", "n", "o", "w", "n">>
NoDescription ==
    <<"N", "o", " ", "d", "e", "s", "c", "r", "i", "p", "t", "i", "o", "n">>
Untitled == <<"U", "n", "t", "i", "t", "l", "e", "d">>

Dataset(i) ==
    [title |-> IF i % 2 = 0 THEN None ELSE Some(i),
     organization |-> IF i % 3 = 0 THEN None ELSE Some("NOAA"),
     notes |-> IF i % 4 = 0 THEN None
               ELSE IF i % 4 = 1 THEN Some(TextOfLen(NotesCut + 1)) ELSE Some(ShortBody),
     id |-> Some(i),
     resources |-> [j \in 1..(i % 3) |-> j]]

\* The counts a search response reports, apart from the results it holds.
ReportedCounts == {0, 100}

SearchPayloads ==
    {[result |-> None]}
    \cup {[result |-> Some([results |-> [i \in 1..n |-> Dataset(i)], count |-> Some(c)])] :
            n \in 0..MaxItems, c \in ReportedCounts}

RowsArgs == {10, 60}

search_datasets ==
    \E query \in {"climate"}, rows0 \in RowsArgs :
        /\ Start("search_datasets", [query |-> query, rows |-> rows0])
        /\ LET rows == Min(rows0, SearchCap) IN
           Await(Url(DATAGOV_BASE, "/action/package_search", <<>>),
                 Some([q |-> query, rows |-> rows]))
        /\ UNCHANGED <<cfg, sched, gets, rets, loc, out>>

\* (the backquotes around the ID are left out of the literals)
dataset_text(ds) ==
    <<Lit("**"), Val("str", GetOr(ds.title, "Untitled")), Lit("**\nOrganization: "),
      Val("str", GetOr(ds.organization, "Unknown")), Lit("\nResources: "),
      Val("int", Len(ds.resources)), Lit(" files\nID: "), Val("str", GetOr(ds.id, "")),
      Lit("\n"), Val("str", Take(GetOr(ds.notes, NoDescription), NotesCut)), Lit("...")>>

search_datasets_resume ==
    /\ Resumed("search_datasets")
    /\ IF fetched.kind = "raise" THEN Propagate
       ELSE LET result == fetched.value.result
                results == IF result = None THEN <<>> ELSE result[1].results
                total == IF result = None THEN 0 ELSE GetOr(result[1].count, 0)
            IN  IF results = <<>>
                THEN Finish(Return(<<Lit("No datasets found for '"), Val("str", args.query),
                                     Lit("'")>>))
                ELSE Finish(Return(
                        [sep |-> "\n\n---\n\n",
                         items |-> <<<<Lit("**Data.gov Search: '"), Val("str", args.query),
                                       Lit("'**")>>,
                                     <<Lit("Found "), Val("int", total),
                                       Lit(" datasets (showing "), Val("int", Len(results)),
                                       Lit(")\n")>>>>
                                   \o [i \in DOMAIN results |-> dataset_text(results[i])]]))
    /\ UNCHANGED <<cfg, sched, tool, args, gets, rets, loc>>

Resource(i) ==
    [name |-> IF i % 2 = 0 THEN None ELSE Some("data.csv"),
     description |-> IF i % 4 = 0 THEN None ELSE Some("The data"),
     format |-> IF i % 3 = 0 THEN None ELSE Some("CSV"),
     url |-> Some(i),
     size |-> IF i % 5 = 0 THEN Some(i) ELSE None]

Package(n) ==
    [title |-> IF n % 2 = 0 THEN None ELSE Some("Storm Events"),
     organization |-> IF n % 3 = 0 THEN None ELSE Some("NOAA"),
     license_title |-> IF n % 2 = 0 THEN Some("CC0") ELSE None,
     metadata_modified |-> IF n % 4 = 0 THEN None ELSE Some(SomeDate),
     notes |-> IF n % 5 = 0 THEN None ELSE Some(ShortBody),
     resources |-> [i \in 1..n |-> Resource(i)]]

\* The answers to package_show: no "result", an empty one, or a package.
PackagePayloads ==
    {[result |-> None], [result |-> Some(<<>>)]}
    \cup {[result |-> Some(Package(n))] : n \in 0..MaxItems}

get_dataset_info ==
    \E dataset_id \in {"storm-events"} :
        /\ Start("get_dataset_info", [dataset_id |-> dataset_id])
        /\ Await(Url(DATAGOV_BASE, "/action/package_show", <<>>), Some([id |-> dataset_id]))
        /\ UNCHANGED <<cfg, sched, gets, rets, loc, out>>

\* name = res.get("name") or res.get("description") or "Unnamed"
resource_text(res) ==
    <<Lit("- ["), Val("str", GetOr(res.format, "Unknown")), Lit("] "),
      Val("str", IF res.name # None THEN res.name[1]
                 ELSE IF res.description # None THEN res.description[1] ELSE "Unnamed"),
      IF res.size # None THEN Val(" ({size} bytes)", res.size[1]) ELSE Lit(""),
      Lit("\n  "), Val("str", GetOr(res.url, "N/A"))>>

get_dataset_info_resume ==
    /\ Resumed("get_dataset_info")
    /\ IF fetched.kind = "raise" THEN Propagate
       ELSE LET ds == GetOr(fetched.value.result, <<>>) IN
            IF ds = <<>>
            THEN Finish(Return(<<Lit("Dataset not found: "), Val("str", args.dataset_id)>>))
            ELSE LET shown == Take(ds.resources, ResourceCap) IN
                 Finish(Return(
                    [sep |-> "\n",
                     items |-> <<<<Lit("**"), Val("str", GetOr(ds.title, "Untitled")),
                                   Lit("**\n")>>,
                                 <<Lit("Organization: "),
                                   Val("str", GetOr(ds.organization, "Unknown"))>>,
                                 <<Lit("License: "),
                                   Val("str", GetOr(ds.license_title, "Unknown"))>>,
                                 <<Lit("Last Updated: "),
                                   Val("str", Take(GetOr(ds.metadata_modified, Unknown),
                                                   DateCut))>>,
                                 <<Lit("\n**Description:**\n"),
                                   Val("str", GetOr(ds.notes, "No description available")),
                                   Lit("\n")>>>>
                               \o (IF ds.resources # <<>>
                                   THEN <<<<Lit("**Available Resources:**")>>>>
                                        \o [i \in DOMAIN shown |-> resource_text(shown[i])]
                                   ELSE <<>>)]))
    /\ UNCHANGED <<cfg, sched, tool, args, gets, rets, loc>>

query_datagov ==
    \E action \in {"group_list"}, params \in RawParams :
        /\ Start("query_datagov", [action |-> action, params |-> params])
        /\ Await(Url(DATAGOV_BASE, "/action/{action}", <<action>>), params)
        /\ UNCHANGED <<cfg, sched, gets, rets, loc, out>>

query_datagov_resume ==
    /\ Resumed("query_datagov")
    /\ Finish(fetched)
    /\ UNCHANGED <<cfg, sched, tool, args, gets, rets, loc>>

-----------------------------------------------------------------------------
(* tools/eu_data.py *)

EU_DATA_BASE == "https://data.europa.eu/api/hub/search"

Bonjour == <<"B", "o", "n", "j", "o", "u", "r">>
Hello == <<"H", "e", "l", "l", "o">>
Unnamed == <<"U", "n", "n", "a", "m", "e", "d">>
LongText == TextOfLen(NotesCut + 1)

\* A title or description field of a dataset: missing, a mapping from language
\* to text (its entries in the order of the JSON object), or a plain string.
Mapping(entries) == [kind |-> "dict", entries |-> entries]

\* The fields the responses hold, in turn.
Multilinguals ==
    <<Mapping(<< <<"fr", Bonjour>> >>),
      Mapping(<< <<"en", Hello>> >>),
      [kind |-> "missing"],
      Mapping(<<>>),
      Mapping(<< <<"fr", Bonjour>>, <<"en", Hello>> >>),
      Mapping(<< <<"fr", Bonjour>>, <<"en", <<>> >> >>),
      Mapping(<< <<"en", <<>> >> >>),
      Mapping(<< <<"en", <<>> >>, <<"fr", Bonjour>> >>),
      [kind |-> "str", text |-> <<"P", "l", "a", "i", "n">>],
      Mapping(<< <<"en", LongText>> >>),
      Mapping(<< <<"de", LongText>>, <<"fr", Bonjour>> >>)>>

Turn(i) == Multilinguals[((i - 1) % Len(Multilinguals)) + 1]

\* d.get(key) of a mapping: None when the key is absent
MapGet(entries, key) ==
    IF \E i \in DOMAIN entries : entries[i][1] = key
    THEN Some(entries[CHOOSE i \in DOMAIN entries : entries[i][1] = key][2])
    ELSE None

multilingual_en_only(obj, placeholder) ==
    IF obj.kind = "str" THEN obj.text
    ELSE IF obj.kind = "dict" /\ TruthyText(MapGet(obj.entries, "en"))
    THEN MapGet(obj.entries, "en")[1]
    ELSE placeholder

\* x = obj.get("en") or list(obj.values())[0] if obj else placeholder, for a
\* dict obj (a missing field is {}); str(obj) otherwise
multilingual(obj, placeholder) ==
    IF obj.kind = "str" THEN obj.text
    ELSE LET entries == IF obj.kind = "missing" THEN <<>> ELSE obj.entries IN
         IF entries # <<>>
         THEN IF TruthyText(MapGet(entries, "en")) THEN MapGet(entries, "en")[1]
              ELSE entries[1][2]
         ELSE placeholder

\* desc = desc[:200] if desc else "No description"
search_desc(obj) ==
    LET desc == multilingual(obj, <<>>) IN
    IF desc # <<>> THEN Take(desc, NotesCut) ELSE NoDescription

EuDataset(i) ==
    [title |-> Turn(i), description |-> Turn(i + 3),
     publisher |-> IF i % 2 = 0 THEN None ELSE Some("Eurostat"),
     id |-> Some(i)]

EuSearchPayloads ==
    {[result |-> None]}
    \cup {[result |-> Some([results |-> [i \in 1..n |-> EuDataset(i)], count |-> Some(c)])] :
            n \in 0..MaxItems, c \in ReportedCounts}

search_eu_datasets ==
    \E query \in {"transport"}, limit0 \in RowsArgs :
        /\ Start("search_eu_datasets", [query |-> query, limit |-> limit0])
        /\ LET limit == Min(limit0, SearchCap) IN
           Await(Url(EU_DATA_BASE, "/datasets", <<>>), Some([q |-> query, limit |-> limit]))
        /\ UNCHANGED <<cfg, sched, gets, rets, loc, out>>

eu_dataset_text(ds) ==
    <<Lit("**"), Val("str", multilingual(ds.title, Untitled)), Lit("**\nPublisher: "),
      Val("str", GetOr(ds.publisher, "Unknown")), Lit("\nID: "), Val("str", GetOr(ds.id, "")),
      Lit("\n"), Val("str", search_desc(ds.description)), Lit("...")>>

search_eu_datasets_resume ==
    /\ Resumed("search_eu_datasets")
    /\ IF fetched.kind = "raise" THEN Propagate
       ELSE LET result == fetched.value.result
                results == IF result = None THEN <<>> ELSE result[1].results
                total == IF result = None THEN 0 ELSE GetOr(result[1].count, 0)
            IN  IF results = <<>>
                THEN Finish(Return(<<Lit("No EU datasets found for '"),
                                     Val("str", args.query), Lit("'")>>))
                ELSE Finish(Return(
                        [sep |-> "\n\n---\n\n",
                         items |-> <<<<Lit("**EU Open Data Search: '"),
                                       Val("str", args.query), Lit("'**")>>,
                                     <<Lit("Found "), Val("int", total),
                                       Lit(" datasets (showing "), Val("int", Len(results)),
                                       Lit(")\n")>>>>
                                   \o [i \in DOMAIN results |-> eu_dataset_text(results[i])]]))
    /\ UNCHANGED <<cfg, sched, tool, args, gets, rets, loc>>

Distribution(i) ==
    [title |-> Turn(i),
     format |-> IF i % 3 = 0 THEN None ELSE Some("CSV"),
     accessUrl |-> IF i % 4 = 0 THEN None ELSE Some(i)]

EuPackage(title, description, n) ==
    [title |-> title, description |-> description,
     publisher |-> IF n % 2 = 0 THEN None ELSE Some("Eurostat"),
     modified |-> IF n % 3 = 0 THEN None ELSE Some(SomeDate),
     license |-> IF n % 2 = 0 THEN Some("CC-BY") ELSE None,
     distributions |-> [i \in 1..n |-> Distribution(i)]]

\* The answers to /datasets/{id}: no "result", an empty one, or a dataset.
EuPackagePayloads ==
    {[result |-> None], [result |-> Some(<<>>)]}
    \cup {[result |-> Some(EuPackage(Multilinguals[t], Multilinguals[d], 0))] :
            t \in DOMAIN Multilinguals, d \in DOMAIN Multilinguals}
    \cup {[result |-> Some(EuPackage(Turn(n), Turn(n + 1), n))] : n \in 1..MaxItems}

get_eu_dataset_info ==
    \E dataset_id \in {"eu-transport"} :
        /\ Start("get_eu_dataset_info", [dataset_id |-> dataset_id])
        /\ Await(Url(EU_DATA_BASE, "/datasets/{dataset_id}", <<dataset_id>>), None)
        /\ UNCHANGED <<cfg, sched, gets, rets, loc, out>>

\* name = dist_title.get("en") or list(dist_title.values())[0] if dist_title
\* else "Unnamed"; str(dist_title) or "Unnamed" when it is no dict
distribution_text(dist) ==
    <<Lit("- ["), Val("str", GetOr(dist.format, "Unknown")), Lit("] "),
      Val("str", IF dist.title.kind = "str" /\ dist.title.text = <<>> THEN Unnamed
                 ELSE multilingual(dist.title, Unnamed)),
      Lit("\n  "), Val("str", GetOr(dist.accessUrl, "N/A"))>>

get_eu_dataset_info_resume ==
    /\ Resumed("get_eu_dataset_info")
    /\ IF fetched.kind = "raise" THEN Propagate
       ELSE LET ds == GetOr(fetched.value.result, <<>>) IN
            IF ds = <<>>
            THEN Finish(Return(<<Lit("Dataset not found: "), Val("str", args.dataset_id)>>))
            ELSE LET shown == Take(ds.distributions, ResourceCap) IN
                 Finish(Return(
                    [sep |-> "\n",
                     items |-> <<<<Lit("**"), Val("str", multilingual(ds.title, Untitled)),
                                   Lit("**\n")>>,
                                 <<Lit("Publisher: "),
                                   Val("str", GetOr(ds.publisher, "Unknown"))>>,
                                 <<Lit("Modified: "),
                                   Val("str", IF TruthyText(ds.modified)
                                              THEN Take(ds.modified[1], DateCut)
                                              ELSE Unknown)>>,
                                 <<Lit("License: "), Val("str", GetOr(ds.license, "Unknown"))>>,
                                 <<Lit("\n**Description:**\n"),
                                   Val("str", multilingual(ds.description, NoDescription)),
                                   Lit("\n")>>>>
                               \o (IF ds.distributions # <<>>
                                   THEN <<<<Lit("**Available Distributions:**")>>>>
                                        \o [i \in DOMAIN shown |-> distribution_text(shown[i])]
                                   ELSE <<>>)]))
    /\ UNCHANGED <<cfg, sched, tool, args, gets, rets, loc>>

query_eu_data ==
    \E endpoint \in {"/catalogues"}, params \in RawParams :
        /\ Start("query_eu_data", [endpoint |-> endpoint, params |-> params])
        /\ Await(Url(EU_DATA_BASE, endpoint, <<>>), params)
        /\ UNCHANGED <<cfg, sched, gets, rets, loc, out>>

query_eu_data_resume ==
    /\ Resumed("query_eu_data")
    /\ Finish(fetched)
    /\ UNCHANGED <<cfg, sched, tool, args, gets, rets, loc>>

-----------------------------------------------------------------------------
(* tools/economics.py *)

WORLDBANK_BASE == "https://api.worldbank.org/v2"

\* compare_countries is called with the first 0..MaxCountries countries.
MaxCountries == 3

IndicatorUrl(country, indicator) ==
    Url(WORLDBANK_BASE, "/country/{country}/indicator/{indicator}", <<country, indicator>>)

\* The answers of the indicator endpoint: a message alone, a page with no
\* rows, or a page whose first row has a value or null.
IndicatorRecord(value, country) ==
    [value |-> value, date |-> Some("2022"), country |-> country]
IndicatorPayloads ==
    {<<[message |-> "Invalid value"]>>, <<[page |-> 1], <<>>>>}
    \cup {<<[page |-> 1], <<IndicatorRecord(v, None)>>>> : v \in {None, Some(1), Some(2)}}
    \cup {<<[page |-> 1], <<IndicatorRecord(Some(2), Some("Named"))>>>>}

\* What one turn of the loop of get_country_indicators appends to results
\* after its fetch: the line of the value, of the null value, of the
\* exception, or nothing when the response has no second element or an empty
\* one.
indicator_line(ret, indicator) ==
    IF ret.kind = "raise"
    THEN <<<<Lit("- "), Val("str", indicator), Lit(": Error fetching data")>>>>
    ELSE LET data == ret.value IN
         IF Len(data) > 1 /\ data[2] # <<>>
         THEN LET record == data[2][1]
                  name == CASE indicator = "NY.GDP.MKTP.CD" -> "GDP (current US$)"
                            [] indicator = "SP.POP.TOTL" -> "Population"
                            [] indicator = "SI.POV.DDAY" -> "Poverty Rate (% at $2.15/day)"
                            [] indicator = "NY.GDP.PCAP.CD" -> "GDP per Capita"
                            [] indicator = "SL.UEM.TOTL.ZS" -> "Unemployment Rate (%)"
                            [] indicator = "FP.CPI.TOTL.ZG" -> "Inflation Rate (%)"
                            [] OTHER -> indicator
                  format == CASE indicator = "NY.GDP.MKTP.CD" -> "${value/1e12:.2f} trillion"
                              [] indicator = "SP.POP.TOTL" -> "{value/1e6:.1f} million"
                              [] indicator \in {"SI.POV.DDAY", "SL.UEM.TOTL.ZS",
                                                "FP.CPI.TOTL.ZG"} -> "{value:.1f}%"
                              [] indicator = "NY.GDP.PCAP.CD" -> "${value:,.0f}"
                              [] OTHER -> "{value:,.2f}"
              IN  IF record.value # None
                  THEN <<<<Lit("- **"), Val("str", name), Lit("** ("),
                           Val("str", GetOr(record.date, "None")), Lit("): "),
                           Val(format, record.value[1])>>>>
                  ELSE <<<<Lit("- **"), Val("str", name), Lit("**: No data available")>>>>
         ELSE <<>>

\* The loop runs over the argument, or over the four defaults when the argument
\* is None or empty; its first fetch.
get_country_indicators ==
    \E country \in {<<"u", "s", "a">>},
       indicators \in {None, Some(<<>>), Some(<<"SL.UEM.TOTL.ZS">>),
                       Some(<<"SP.POP.TOTL", "XX.OTHER">>)} :
        /\ Start("get_country_indicators", [country |-> country, indicators |-> indicators])
        /\ LET used == IF indicators = None \/ indicators = Some(<<>>)
                       THEN <<"NY.GDP.MKTP.CD", "SP.POP.TOTL", "SI.POV.DDAY", "NY.GDP.PCAP.CD">>
                       ELSE indicators[1]
           IN  /\ Await(IndicatorUrl(country, used[1]),
                        Some([format |-> "json", per_page |-> 5, mrv |-> 1]))
               /\ loc' = [i |-> 1, indicators |-> used,
                          results |-> <<<<Lit("**Economic Indicators for "),
                                          Val("str", upper(country)), Lit("**\n")>>>>]
        /\ UNCHANGED <<cfg, sched, gets, rets, out>>

\* One turn of the loop after its await: the rest of the try block or the
\* except block, then the next indicator's fetch or the join of the lines.
get_country_indicators_resume ==
    /\ Resumed("get_country_indicators")
    /\ LET results == loc.results \o indicator_line(fetched, loc.indicators[loc.i]) IN
       IF loc.i < Len(loc.indicators)
       THEN /\ Await(IndicatorUrl(args.country, loc.indicators[loc.i + 1]),
                     Some([format |-> "json", per_page |-> 5, mrv |-> 1]))
            /\ loc' = [loc EXCEPT !.i = loc.i + 1, !.results = results]
            /\ UNCHANGED out
       ELSE /\ Finish(Return([sep |-> "\n", items |-> results]))
            /\ loc' = [loc EXCEPT !.results = results]
    /\ UNCHANGED <<cfg, sched, tool, args, gets, rets>>

\* The (country_name, value, year) that one response adds to data_points.
data_point(ret, country) ==
    IF ret.kind = "raise" THEN <<>>
    ELSE LET data == ret.value IN
         IF Len(data) > 1 /\ data[2] # <<>>
         THEN LET record == data[2][1] IN
              IF record.value # None
              THEN <<[country_name |-> GetOr(record.country, country),
                      value |-> record.value[1],
                      year |-> GetOr(record.date, "None")]>>
              ELSE <<>>
         ELSE <<>>

no_sort(points) == points

\* The place of x in s, sorted by value descending, after its equals.
InsertDesc(s, x) ==
    LET k == Cardinality({i \in DOMAIN s : s[i].value >= x.value})
    IN  Take(s, k) \o <<x>> \o Drop(s, k)

\* data_points.sort(key=lambda x: x[1], reverse=True): stable
RECURSIVE sort_desc(_)
sort_desc(points) ==
    IF points = <<>> THEN <<>>
    ELSE InsertDesc(sort_desc(SubSeq(points, 1, Len(points) - 1)), Last(points))

compare_format(indicator) ==
    IF indicator = "NY.GDP.MKTP.CD" THEN "${value/1e12:.2f}T"
    ELSE IF indicator = "SP.POP.TOTL" THEN "{value/1e6:.1f}M"
    ELSE IF indicator = "NY.GDP.PCAP.CD" THEN "${value:,.0f}"
    ELSE "{value:,.2f}"

compare_name(indicator) ==
    IF indicator = "NY.GDP.MKTP.CD" THEN "GDP (current US$)"
    ELSE IF indicator = "SP.POP.TOTL" THEN "Population"
    ELSE IF indicator = "NY.GDP.PCAP.CD" THEN "GDP per Capita"
    ELSE IF indicator = "SL.UEM.TOTL.ZS" THEN "Unemployment Rate (%)"
    ELSE indicator

comparison_line(point, indicator) ==
    <<Lit("- "), Val("str", point.country_name), Lit(": "),
      Val(compare_format(indicator), point.value), Lit(" ("), Val("str", point.year),
      Lit(")")>>

\* The lines after the loop: the points sorted, one line each.
comparison_text(points, indicator) ==
    LET sorted == sort_desc(points) IN
    [sep |-> "\n",
     items |-> <<<<Lit("**Comparing "), Lit(compare_name(indicator)), Lit("**\n")>>>>
               \o [i \in DOMAIN sorted |-> comparison_line(sorted[i], indicator)]]

compare_countries ==
    \E countries \in {SubSeq(<<"USA", "CHN", "IND", "BRA", "DEU">>, 1, n) : n \in 0..MaxCountries},
       indicator \in {"NY.GDP.MKTP.CD", "SL.UEM.TOTL.ZS"} :
        /\ Start("compare_countries", [countries |-> countries, indicator |-> indicator])
        /\ IF countries = <<>>
           THEN /\ Finish(Return(comparison_text(<<>>, indicator)))
                /\ UNCHANGED loc
           ELSE /\ Await(IndicatorUrl(countries[1], indicator),
                         Some([format |-> "json", per_page |-> 1, mrv |-> 1]))
                /\ loc' = [i |-> 1, data_points |-> <<>>]
                /\ UNCHANGED out
        /\ UNCHANGED <<cfg, sched, gets, rets>>

\* One turn of the loop after its await: the try block's rest, then the next
\* country's fetch or the end of the loop.
compare_countries_resume ==
    /\ Resumed("compare_countries")
    /\ LET data_points == loc.data_points \o data_point(fetched, args.countries[loc.i]) IN
       IF loc.i < Len(args.countries)
       THEN /\ Await(IndicatorUrl(args.countries[loc.i + 1], args.indicator),
                     Some([format |-> "json", per_page |-> 1, mrv |-> 1]))
            /\ loc' = [i |-> loc.i + 1, data_points |-> data_points]
            /\ UNCHANGED out
       ELSE /\ Finish(Return(comparison_text(data_points, args.indicator)))
            /\ loc' = [i |-> loc.i, data_points |-> data_points]
    /\ UNCHANGED <<cfg, sched, tool, args, gets, rets>>

query_worldbank ==
    \E country \in {"all"}, indicator \in {"SP.POP.TOTL"}, params \in RawParams :
        /\ Start("query_worldbank",
                 [country |-> country, indicator |-> indicator, params |-> params])
        /\ Await(IndicatorUrl(country, indicator),
                 Some(SetItem(OrEmpty(params), "format", "json")))
        /\ UNCHANGED <<cfg, sched, gets, rets, loc, out>>

query_worldbank_resume ==
    /\ Resumed("query_worldbank")
    /\ Finish(fetched)
    /\ UNCHANGED <<cfg, sched, tool, args, gets, rets, loc>>

-----------------------------------------------------------------------------
(* tools/census.py: the raw query *)

\* sep.join(xs): the items with sep between them.
join(sep, xs) ==
    [i \in 1..(2 * Len(xs) - 1) |-> IF i % 2 = 1 THEN xs[(i + 1) \div 2] ELSE sep]

query_census ==
    \E dataset \in {"acs/acs5", "dec/pl"},
       variables \in {<<>>, <<"NAME">>, <<"NAME", "B01003_001E">>},
       geo \in {"state:06", "county:*&in=state:06"},
       year \in {"2022", "2020"} :
        /\ Start("query_census",
                 [dataset |-> dataset, variables |-> variables, geo |-> geo, year |-> year])
        /\ LET var_str == join(",", variables)
           IN  Await(Url(CENSUS_BASE, "/{year}/{dataset}?get={var_str}&for={geo}",
                         <<year, dataset, var_str, geo>>),
                     None)
        /\ UNCHANGED <<cfg, sched, gets, rets, loc, out>>

query_census_resume ==
    /\ Resumed("query_census")
    /\ Finish(fetched)
    /\ UNCHANGED <<cfg, sched, tool, args, gets, rets, loc>>

-----------------------------------------------------------------------------
(* The upstream: what each endpoint can answer *)

PayloadsFor(r) ==
    IF tool = "get_global_weather" THEN OpenWeatherPayloads
    ELSE IF tool = "get_weather_forecast" THEN
        IF r.url[1] \in ForecastUrls THEN ForecastPayloads ELSE PointsPayloads
    ELSE IF tool = "get_weather_alerts" THEN AlertsPayloads
    ELSE IF tool = "get_astronomy_photo" THEN ApodPayloads
    ELSE IF tool = "get_mars_rover_photos" THEN PhotosPayloads
    ELSE IF tool = "search_nasa_images" THEN ImagesPayloads
    ELSE IF tool = "search_datasets" THEN SearchPayloads
    ELSE IF tool = "get_dataset_info" THEN PackagePayloads
    ELSE IF tool = "search_eu_datasets" THEN EuSearchPayloads
    ELSE IF tool = "get_eu_dataset_info" THEN EuPackagePayloads
    ELSE IF tool = "compare_countries" THEN IndicatorPayloads
    ELSE IF tool = "get_country_indicators"
    THEN {p \in IndicatorPayloads :
            Len(p) = 1 \/ p[2] = <<>> \/ (p[2][1].country = None /\ p[2][1].value # Some(1))}
    ELSE IF tool = "get_population"
    THEN {<<>>} \cup {<<CensusHeader>> \o [i \in 1..n |-> PopulationRow(i)] : n \in 0..MaxRows}
    ELSE IF tool = "get_demographics"
    THEN {<<>>, <<CensusHeader>>} \cup {<<CensusHeader, row>> : row \in DemographicsRows}
    ELSE IF tool = "get_housing_stats"
    THEN {<<>>, <<CensusHeader>>} \cup {<<CensusHeader, row>> : row \in HousingRows}
    ELSE {[shape |-> "raw", id |-> 1], [shape |-> "raw", id |-> 2]}

Upstream(r) ==
    WireFailures \cup {WireResponse(200, ShortBody, Some(p)) : p \in PayloadsFor(r)}

\* One fetch_json call: the GET, the upstream's answer, the classification.
FetchJson ==
    /\ pc = "fetch"
    /\ \E wire \in Upstream(req) :
         LET f == fetch_json(req, wire) IN
           /\ gets' = gets \o f.gets
           /\ rets' = Append(rets, f.ret)
    /\ pc' = "resume"
    /\ UNCHANGED <<cfg, sched, tool, args, req, loc, out>>

\* The host takes the result; the next invocation can start.
Complete ==
    /\ pc = "done"
    /\ pc' = "idle"
    /\ tool' = "none"
    /\ args' = <<>>
    /\ req' = NoReq
    /\ gets' = <<>>
    /\ rets' = <<>>
    /\ loc' = <<>>
    /\ out' = None
    /\ sched' = [sched EXCEPT !.mixed = FALSE]
    /\ UNCHANGED cfg

-----------------------------------------------------------------------------

\* The frame of an invocation that has not started.
IdleFrame ==
    [pc |-> "idle", tool |-> "none", args |-> <<>>, req |-> NoReq, gets |-> <<>>,
     rets |-> <<>>, loc |-> <<>>, out |-> None, mixed |-> FALSE]

Init ==
    /\ ConfigInit
    /\ pc = "idle"
    /\ tool = "none"
    /\ args = <<>>
    /\ req = NoReq
    /\ gets = <<>>
    /\ rets = <<>>
    /\ loc = <<>>
    /\ out = None
    /\ sched = [suspended |-> IdleFrame, mixed |-> FALSE]

Next ==
    \/ get_global_weather
    \/ get_global_weather_resume
    \/ query_openweather
    \/ query_openweather_resume
    \/ get_weather_forecast
    \/ get_weather_forecast_points
    \/ get_weather_forecast_resume
    \/ get_weather_alerts
    \/ get_weather_alerts_resume
    \/ query_noaa
    \/ query_noaa_resume
    \/ get_astronomy_photo
    \/ get_astronomy_photo_resume
    \/ get_mars_rover_photos
    \/ get_mars_rover_photos_resume
    \/ search_nasa_images
    \/ search_nasa_images_resume
    \/ query_nasa
    \/ query_nasa_resume
    \/ search_datasets
    \/ search_datasets_resume
    \/ get_dataset_info
    \/ get_dataset_info_resume
    \/ query_datagov
    \/ query_datagov_resume
    \/ search_eu_datasets
    \/ search_eu_datasets_resume
    \/ get_eu_dataset_info
    \/ get_eu_dataset_info_resume
    \/ query_eu_data
    \/ query_eu_data_resume
    \/ get_country_indicators
    \/ get_country_indicators_resume
    \/ compare_countries
    \/ compare_countries_resume
    \/ query_worldbank
    \/ query_worldbank_resume
    \/ query_census
    \/ query_census_resume
    \/ get_population
    \/ get_population_resume
    \/ get_demographics
    \/ get_demographics_resume
    \/ get_housing_stats
    \/ get_housing_stats_resume
    \/ FetchJson
    \/ Complete

Spec == Init /\ [][Next]_vars

-----------------------------------------------------------------------------
(* Two invocations on the event loop.  The tools are coroutines of one      *)
(* thread: an invocation runs until it awaits fetch_json, and while it      *)
(* waits, or before it is resumed, the loop can run the other one.  What    *)
(* belongs to an invocation is its coroutine frame; what the invocations    *)
(* share is the module-level config (and http_client, which keeps no state  *)
(* of a request).                                                           *)

\* The frame of the running invocation, as the loop keeps it when it turns to
\* the other one.
frame ==
    [pc |-> pc, tool |-> tool, args |-> args, req |-> req, gets |-> gets,
     rets |-> rets, loc |-> loc, out |-> out,
     mixed |-> sched.mixed \/ pc \in {"fetch", "resume"}]

\* data_points kept as one module-level list, not as a local of the coroutine:
\* a resumed compare_countries finds in it what the other one left there.
shared_data_points(f) ==
    IF tool = "compare_countries" /\ f.tool = "compare_countries"
       /\ loc # <<>> /\ f.loc # <<>>
    THEN [f.loc EXCEPT !.data_points = loc.data_points]
    ELSE f.loc

\* The local variables a frame gives back to its coroutine.
saved_locals(f) == f.loc

\* The loop turns from the running invocation to the suspended one.
Switch ==
    /\ pc' = sched.suspended.pc
    /\ tool' = sched.suspended.tool
    /\ args' = sched.suspended.args
    /\ req' = sched.suspended.req
    /\ gets' = sched.suspended.gets
    /\ rets' = sched.suspended.rets
    /\ loc' = saved_locals(sched.suspended)
    /\ out' = sched.suspended.out
    /\ sched' = [suspended |-> frame, mixed |-> sched.suspended.mixed]
    /\ UNCHANGED cfg

\* The concurrent runs are explored for the tools with more than one await
\* and for a key-reading one, over lists of at most ConcCountries countries
\* and an upstream that answers with a value or with status 404.
ConcCountries == 2

ConcAnswer(ret) ==
    IF ret.kind = "raise" THEN ret.msg # <<>> /\ ret.msg[1] = Lit("HTTP ")
    ELSE tool = "compare_countries" =>
            /\ Len(ret.value) > 1
            /\ ret.value[2] # <<>>
            /\ ret.value[2][1].value # None
            /\ ret.value[2][1].country = None

ConcCompare ==
    /\ compare_countries
    /\ Len(args'.countries) <= ConcCountries
    /\ args'.indicator = "NY.GDP.MKTP.CD"

ConcFetchJson ==
    /\ FetchJson
    /\ ConcAnswer(rets'[Len(rets')])

ConcNext ==
    \/ ConcCompare
    \/ compare_countries_resume
    \/ get_weather_forecast
    \/ get_weather_forecast_points
    \/ get_weather_forecast_resume
    \/ query_nasa
    \/ query_nasa_resume
    \/ ConcFetchJson
    \/ Complete
    \/ Switch

ConcSpec == Init /\ [][ConcNext]_vars

-----------------------------------------------------------------------------
(* Properties *)

\* The text holds the literal s.
Contains(text, s) == \E i \in DOMAIN text : text[i].t = "lit" /\ text[i].v = s

NoOpenWeatherKey ==
    cfg.openweather_api_key = None \/ cfg.openweather_api_key = Some("")

\* C1: with no OpenWeather key (absent or empty), get_global_weather returns
\* a text holding "OPENWEATHER_API_KEY" and query_openweather returns an error
\* mapping holding it; neither raises, calls the gateway or issues a GET.
C1_GatedDenial ==
    (tool \in {"get_global_weather", "query_openweather"} /\ NoOpenWeatherKey) =>
        /\ pc = "done"
        /\ gets = <<>>
        /\ rets = <<>>
        /\ out.kind = "return"
        /\ tool = "get_global_weather" => Contains(out.value, "OPENWEATHER_API_KEY")
        /\ tool = "query_openweather" =>
             /\ DOMAIN out.value = {"error"}
             /\ Contains(out.value.error, "OPENWEATHER_API_KEY")

C1_Witness ==
    /\ tool = "get_global_weather"
    /\ cfg.openweather_api_key = Some("")
    /\ pc = "done"
    /\ gets = <<>>
    /\ Contains(out.value, "OPENWEATHER_API_KEY")

\* The invocation of tool name has ended after a fetch that gave a JSON value.
DoneAfterFetch(name) ==
    /\ pc = "done"
    /\ tool = name
    /\ rets # <<>>
    /\ fetched.kind = "return"

\* The i-th country's response holds a first record with a value.
Reporting(i) ==
    /\ rets[i].kind = "return"
    /\ Len(rets[i].value) > 1
    /\ rets[i].value[2] # <<>>
    /\ rets[i].value[2][1].value # None

ReportedName(i) == GetOr(rets[i].value[2][1].country, args.countries[i])
ReportedValue(i) == rets[i].value[2][1].value[1]

\* The lines of a comparison after its header.
ComparisonLines == Drop(out.value.items, 1)

SortedDescending(lines) ==
    \A k \in 1..(Len(lines) - 1) : lines[k][4].v >= lines[k + 1][4].v

\* C2 as amended: compare_countries never fails because a per-country fetch
\* failed; its output holds exactly one entry for every country whose fetch
\* gave a response with a first record of non-null value, no entry for any
\* other country (failed fetch, no rows, null value), and the entries are in
\* non-increasing order of value.
C2_PartialResults ==
    (pc = "done" /\ tool = "compare_countries") =>
        /\ out.kind = "return"
        /\ Len(rets) = Len(args.countries)
        /\ Len(ComparisonLines) = Cardinality({i \in DOMAIN rets : Reporting(i)})
        /\ \A i \in DOMAIN rets :
             Reporting(i) =>
                Cardinality({k \in DOMAIN ComparisonLines :
                                /\ ComparisonLines[k][2].v = ReportedName(i)
                                /\ ComparisonLines[k][4].v = ReportedValue(i)})
                = Cardinality({j \in DOMAIN rets :
                                /\ Reporting(j)
                                /\ ReportedName(j) = ReportedName(i)
                                /\ ReportedValue(j) = ReportedValue(i)})
        /\ SortedDescending(ComparisonLines)

C2_Witness ==
    /\ pc = "done"
    /\ tool = "compare_countries"
    /\ Len(args.countries) = 3
    /\ Reporting(1)
    /\ ReportedValue(1) = 1
    /\ rets[2].kind = "raise"
    /\ Reporting(3)
    /\ ReportedValue(3) = 2
    /\ Len(ComparisonLines) = 2
    /\ ComparisonLines[1][2].v = "IND"
    /\ ComparisonLines[2][2].v = "USA"

\* C2 as claimed: one entry for every country whose fetch did not fail, none
\* for a country whose fetch failed, in non-increasing order of value.
C2_AsClaimed ==
    (pc = "done" /\ tool = "compare_countries") =>
        /\ out.kind = "return"
        /\ Len(ComparisonLines) = Cardinality({i \in DOMAIN rets : rets[i].kind = "return"})
        /\ SortedDescending(ComparisonLines)

ListTools ==
    {"get_weather_alerts", "get_mars_rover_photos", "search_nasa_images",
     "get_dataset_info", "get_eu_dataset_info", "get_population",
     "search_datasets", "search_eu_datasets"}

\* The items the response of a list tool holds.
Received ==
    LET data == fetched.value IN
    CASE tool = "get_weather_alerts" -> GetOr(data.features, <<>>)
      [] tool = "get_mars_rover_photos" -> GetOr(data.photos, <<>>)
      [] tool = "search_nasa_images" ->
            IF data.collection = None THEN <<>> ELSE data.collection[1].items
      [] tool = "get_dataset_info" ->
            IF GetOr(data.result, <<>>) = <<>> THEN <<>> ELSE data.result[1].resources
      [] tool = "get_eu_dataset_info" ->
            IF GetOr(data.result, <<>>) = <<>> THEN <<>> ELSE data.result[1].distributions
      [] tool = "get_population" -> IF data = <<>> THEN <<>> ELSE Drop(data, 1)
      [] tool \in {"search_datasets", "search_eu_datasets"} ->
            IF data.result = None THEN <<>> ELSE data.result[1].results

\* The lines a list tool puts before its entries.
HeaderLines ==
    CASE tool \in {"get_weather_alerts", "get_population"} -> 1
      [] tool \in {"get_dataset_info", "get_eu_dataset_info"} -> 6
      [] OTHER -> 2

ClaimedCap ==
    CASE tool \in {"search_datasets", "search_eu_datasets"} -> 50
      [] tool = "get_population" -> 20
      [] OTHER -> 10

\* C3: every list-rendering tool formats min(cap, items received) entries,
\* with cap 10 for alerts, rover photos, image search and dataset resources,
\* 20 for population rows and 50 for the two dataset searches.
C3_AsClaimed ==
    (/\ pc = "done"
     /\ tool \in ListTools
     /\ rets # <<>>
     /\ fetched.kind = "return"
     /\ Received # <<>>) =>
        /\ out.kind = "return"
        /\ Len(out.value.items) - HeaderLines = Min(ClaimedCap, Len(Received))

FailureClasses == {Lit("Request timed out after "), Lit("HTTP "), Lit("Request failed: ")}

\* C4: every fetch_json call returns the parsed JSON value or fails with
\* Timeout, HttpStatus (at most the first 200 characters of the body) or
\* Transport; no other failure leaves the gateway.
C4_AsClaimed ==
    \A i \in DOMAIN rets :
        \/ rets[i].kind = "return"
        \/ /\ rets[i].type = "Exception"
           /\ rets[i].msg # <<>>
           /\ rets[i].msg[1] \in FailureClasses
           /\ rets[i].msg[1] = Lit("HTTP ") => Len(rets[i].msg[4].v) <= 200

MultiStepTools == {"get_weather_forecast", "get_country_indicators", "compare_countries"}

\* The message holds the URL of the request.
NamesUrl(msg, url) == \E i \in DOMAIN msg : msg[i].t = "url" /\ msg[i].v = url

\* C5: in a single-step tool a fetch failure of any of the three classes
\* reaches the caller as that error, and its message holds the URL of the
\* failing request.
C5_AsClaimed ==
    (/\ pc = "done"
     /\ tool \notin MultiStepTools
     /\ rets # <<>>
     /\ fetched.kind = "raise"
     /\ fetched.type = "Exception") =>
        /\ out = fetched
        /\ NamesUrl(out.msg, gets[1].url[1])

\* The tool returns before its fetch: an OpenWeather tool without a key, or
\* get_weather_alerts with a state that is not two characters long once
\* upper-cased.
ReturnsEarly ==
    \/ tool \in {"get_global_weather", "query_openweather"} /\ NoOpenWeatherKey
    \/ tool = "get_weather_alerts" /\ Len(upper(args.state)) # 2

\* C6 as amended: no request is retried: each fetch_json call issues exactly
\* one GET, and one invocation issues exactly 1 GET in a single-step tool that
\* reaches its fetch (0 when an OpenWeather tool has no key or
\* get_weather_alerts rejects its argument), at most 2 in get_weather_forecast
\* (1 when the first fails), exactly len(countries) in compare_countries and
\* one per indicator of the loop in get_country_indicators, however many of
\* them fail.
C6_NoRetry ==
    /\ Len(gets) = Len(rets)
    /\ pc = "done" =>
         /\ tool \notin MultiStepTools => Len(gets) = IF ReturnsEarly THEN 0 ELSE 1
         /\ tool = "get_weather_forecast" =>
              /\ Len(gets) \in {1, 2}
              /\ rets[1].kind = "raise" => Len(gets) = 1
         /\ tool = "compare_countries" => Len(gets) = Len(args.countries)
         /\ tool = "get_country_indicators" => Len(gets) = Len(loc.indicators)

C6_Witness ==
    /\ pc = "done"
    /\ tool = "compare_countries"
    /\ Len(args.countries) = 3
    /\ rets[1].kind = "raise"
    /\ rets[2].kind = "raise"
    /\ rets[3].kind = "return"
    /\ Len(gets) = 3

\* C6 as claimed: every single-step tool issues exactly 1 GET.
C6_AsClaimed ==
    /\ Len(gets) = Len(rets)
    /\ pc = "done" =>
         /\ tool \notin MultiStepTools => Len(gets) = 1
         /\ tool = "get_weather_forecast" => Len(gets) \in {1, 2}
         /\ tool = "compare_countries" => Len(gets) = Len(args.countries)

\* The text of the mapping's "en" entry, if it has one.
EnglishOf(obj) ==
    IF obj.kind = "dict" /\ \E i \in DOMAIN obj.entries : obj.entries[i][1] = "en"
    THEN Some(obj.entries[CHOOSE i \in DOMAIN obj.entries : obj.entries[i][1] = "en"][2])
    ELSE None

\* What C7 as amended says of a field that is a mapping or missing.
Extracted(obj, placeholder) ==
    IF obj.kind = "missing" \/ obj.entries = <<>> THEN placeholder
    ELSE IF EnglishOf(obj) # None /\ EnglishOf(obj)[1] # <<>> THEN EnglishOf(obj)[1]
    ELSE obj.entries[1][2]

SearchDescription(obj) ==
    IF Extracted(obj, <<>>) = <<>> THEN NoDescription ELSE Take(Extracted(obj, <<>>), 200)

EuDatasetShown ==
    /\ DoneAfterFetch("get_eu_dataset_info")
    /\ GetOr(fetched.value.result, <<>>) # <<>>

EuResultsShown ==
    /\ DoneAfterFetch("search_eu_datasets")
    /\ Received # <<>>

\* C7 as amended: a title or description mapping gives its English entry when
\* that is present and not empty; otherwise the value of its first entry
\* ({"fr": "Bonjour"} gives "Bonjour"); and the placeholder ("Untitled",
\* "No description") when the mapping is empty or the field is missing.
\* search_eu_datasets cuts the description to 200 characters and shows
\* "No description" for an empty one.  The extraction never raises.
C7_Multilingual ==
    /\ EuDatasetShown =>
         LET ds == fetched.value.result[1] IN
         /\ out.kind = "return"
         /\ ds.title.kind # "str" => out.value.items[1][2].v = Extracted(ds.title, Untitled)
         /\ ds.description.kind # "str" =>
              out.value.items[5][2].v = Extracted(ds.description, NoDescription)
         /\ ds.title = Mapping(<< <<"fr", Bonjour>> >>) => out.value.items[1][2].v = Bonjour
         /\ ds.title = Mapping(<<>>) => out.value.items[1][2].v = Untitled
    /\ EuResultsShown =>
         /\ out.kind = "return"
         /\ \A i \in DOMAIN Received :
              /\ Received[i].title.kind # "str" =>
                   out.value.items[2 + i][2].v = Extracted(Received[i].title, Untitled)
              /\ Received[i].description.kind # "str" =>
                   out.value.items[2 + i][8].v = SearchDescription(Received[i].description)

C7_Witness ==
    /\ EuDatasetShown
    /\ fetched.value.result[1].title = Mapping(<< <<"fr", Bonjour>> >>)
    /\ fetched.value.result[1].description = Mapping(<<>>)
    /\ out.value.items[1][2].v = Bonjour
    /\ out.value.items[5][2].v = NoDescription

\* C7 as claimed: the English entry is used whenever the mapping has one.
C7_AsClaimed ==
    /\ EuDatasetShown =>
         LET ds == fetched.value.result[1] IN
         /\ EnglishOf(ds.title) # None => out.value.items[1][2].v = EnglishOf(ds.title)[1]
         /\ EnglishOf(ds.description) # None =>
              out.value.items[5][2].v = EnglishOf(ds.description)[1]
    /\ EuResultsShown =>
         \A i \in DOMAIN Received :
            /\ EnglishOf(Received[i].title) # None =>
                 out.value.items[2 + i][2].v = EnglishOf(Received[i].title)[1]
            /\ EnglishOf(Received[i].description) # None =>
                 out.value.items[2 + i][8].v = Take(EnglishOf(Received[i].description)[1], 200)

ZeroTotals == {None, Some(<<>>), Some(<<"0">>)}

\* C8: get_demographics shows, for each of the four race/ethnicity counts,
\* "N/A" when the total population is 0 or empty, and otherwise part/total*100
\* to one decimal followed by "%" (total 200 and part 50: "25.0%"); it never
\* divides by zero.
C8_PercentOfTotal ==
    (DoneAfterFetch("get_demographics") /\ Len(fetched.value) >= 2) =>
        /\ out.kind = "return"
        /\ \A j \in 0..3 :
             LET total == fetched.value[2][2]
                 part == fetched.value[2][5 + j]
                 shown == out.value[12 + 4 * j].v
             IN  /\ total \in ZeroTotals => shown = <<Lit("N/A")>>
                 /\ total \notin ZeroTotals =>
                      /\ Len(shown) = 2
                      /\ shown[1].t = ".1f"
                      /\ 2 * Abs(1000 * int_or_zero(part) - shown[1].v * int(total[1]))
                           <= int(total[1])
                      /\ shown[2] = Lit("%")
                 /\ (total = Some(<<"2", "0", "0">>) /\ part = Some(<<"5", "0">>)) =>
                      shown = <<Val(".1f", 250), Lit("%")>>

C8_Witness ==
    /\ DoneAfterFetch("get_demographics")
    /\ Len(fetched.value) >= 2
    /\ fetched.value[2][2] = Some(<<"2", "0", "0">>)
    /\ fetched.value[2][5] = Some(<<"5", "0">>)
    /\ out.kind = "return"
    /\ out.value[12].v = <<Val(".1f", 250), Lit("%")>>

\* C9: get_housing_stats with zero (or empty) total housing units shows the
\* vacancy rate as "N/A", not as a number, and does not divide by zero.
C9_AsClaimed ==
    (/\ DoneAfterFetch("get_housing_stats")
     /\ Len(fetched.value) >= 2
     /\ fetched.value[2][2] \in ZeroTotals) =>
        /\ out.kind = "return"
        /\ out.value[10] = Lit("N/A")

CensusTools == {"get_population", "get_demographics", "get_housing_stats"}

\* The state code in the geography of the pending census request.
SentFips == Last(req.url[1].arg[2]).v

\* The argument is the code k in some letter case.
InSomeCase(state, k) ==
    /\ Len(state) = Len(k)
    /\ \A i \in DOMAIN k : state[i] \in {k[i], lower_char(k[i])}

IsDigits(s) == \A i \in DOMAIN s : Occurs(Digits, s[i])

\* C10 as amended: each of the 52 codes of the table, in any letter case, gives
\* the table's fixed two-digit code in every census tool (CA 06, TX 48, DC 11);
\* any other argument is passed into the query upper-cased.
C10_StateCodeLookup ==
    (tool \in CensusTools /\ pc = "fetch") =>
        /\ Cardinality(DOMAIN STATE_FIPS) = 52
        /\ \A k \in DOMAIN STATE_FIPS :
             InSomeCase(args.state, k) =>
                /\ SentFips = STATE_FIPS[k]
                /\ Len(SentFips) = 2
                /\ IsDigits(SentFips)
        /\ InSomeCase(args.state, <<"C", "A">>) => SentFips = <<"0", "6">>
        /\ InSomeCase(args.state, <<"T", "X">>) => SentFips = <<"4", "8">>
        /\ InSomeCase(args.state, <<"D", "C">>) => SentFips = <<"1", "1">>
        /\ (\A k \in DOMAIN STATE_FIPS : ~InSomeCase(args.state, k)) =>
             /\ lower(SentFips) = lower(args.state)
             /\ \A i \in DOMAIN SentFips : ~Occurs(LowerLetters, SentFips[i])

C10_Witness ==
    /\ tool = "get_demographics"
    /\ pc = "fetch"
    /\ args.state = <<"c", "a">>
    /\ SentFips = <<"0", "6">>

\* C10 as claimed: a recognized code gives a five-digit code, and any other
\* argument is passed into the query unchanged.
C10_AsClaimed ==
    (tool \in CensusTools /\ pc = "fetch") =>
        /\ \A k \in DOMAIN STATE_FIPS :
             InSomeCase(args.state, k) =>
                /\ SentFips = STATE_FIPS[k]
                /\ Len(SentFips) = 5
                /\ IsDigits(SentFips)
        /\ (\A k \in DOMAIN STATE_FIPS : ~InSomeCase(args.state, k)) =>
             SentFips = args.state

\* The fetch succeeded and the response holds no record for what was asked:
\* an empty or missing "result", an empty result list, or only the header row.
EmptyRecord ==
    /\ pc = "done"
    /\ rets # <<>>
    /\ fetched.kind = "return"
    /\ \/ /\ tool \in {"get_dataset_info", "get_eu_dataset_info"}
          /\ GetOr(fetched.value.result, <<>>) = <<>>
       \/ /\ tool \in {"search_datasets", "search_eu_datasets",
                       "get_mars_rover_photos", "search_nasa_images"}
          /\ Received = <<>>
       \/ /\ tool \in CensusTools
          /\ Len(fetched.value) = 1

NotFoundTexts ==
    {"Dataset not found: ", "No datasets found for '", "No EU datasets found for '",
     "No photos found for ", "No results found for '"}

\* The lines of the text returned: get_population joins a list of lines, the
\* other tools return one formatted text when the record is empty.
OutputLines == IF tool = "get_population" THEN out.value.items ELSE <<out.value>>

IsNotFoundText ==
    \E i \in DOMAIN OutputLines :
        /\ OutputLines[i] # <<>>
        /\ OutputLines[i][1].t = "lit"
        /\ OutputLines[i][1].v \in NotFoundTexts

\* C11: when the fetch succeeds with an empty or absent record, the tool
\* returns a "not found" text and does not raise: get_dataset_info,
\* get_eu_dataset_info, the search and photo tools, and the three census tools
\* on a response of the header row alone.
C11_AsClaimed ==
    EmptyRecord =>
        /\ out.kind = "return"
        /\ IsNotFoundText

RawTools ==
    {"query_noaa", "query_census", "query_nasa", "query_worldbank", "query_datagov",
     "query_eu_data", "query_openweather"}

\* The raw-query tools that add a parameter of their own, and its name.
InjectingTools == {"query_nasa", "query_openweather", "query_worldbank"}

RequiredParam ==
    CASE tool = "query_nasa" -> "api_key"
      [] tool = "query_openweather" -> "appid"
      [] tool = "query_worldbank" -> "format"

\* The system's value of that parameter.
SystemValue ==
    CASE tool = "query_nasa" ->
            IF cfg.nasa_api_key \in {None, Some("")} THEN "DEMO_KEY" ELSE cfg.nasa_api_key[1]
      [] tool = "query_openweather" -> cfg.openweather_api_key[1]
      [] tool = "query_worldbank" -> "json"

\* The caller's parameters as a dict (none given: the empty one).
CallerParams == IF args.params = None THEN <<>> ELSE args.params[1]

CallerKeys == IF CallerParams = <<>> THEN {} ELSE DOMAIN CallerParams

\* A raw-query invocation that reached the gateway.
RawCalled ==
    /\ tool \in RawTools
    /\ pc # "idle"
    /\ ~(tool = "query_openweather" /\ NoOpenWeatherKey)

\* The request of the invocation: pending, or the one logged.
RawRequest == IF pc = "fetch" THEN req ELSE gets[1]

\* C12: a raw-query tool issues one gateway call and returns the gateway's
\* parsed JSON value unchanged (its failure reaches the caller unchanged);
\* the parameters sent are the caller's parameters plus the provider's
\* required one (api_key, appid, format=json), which always has the system's
\* value, also when the caller gave that parameter.  query_census has no
\* parameters: the caller's year, dataset, variables and geography make up
\* its URL.
C12_RawQuery ==
    RawCalled =>
        /\ tool \in InjectingTools =>
             LET sent == RawRequest.params[1] IN
             /\ DOMAIN sent = CallerKeys \cup {RequiredParam}
             /\ sent[RequiredParam] = SystemValue
             /\ \A k \in CallerKeys \ {RequiredParam} : sent[k] = CallerParams[k]
        /\ tool \in {"query_noaa", "query_datagov", "query_eu_data"} =>
             RawRequest.params = args.params
        /\ tool = "query_census" =>
             /\ RawRequest.params = None
             /\ RawRequest.url[1].arg
                  = <<args.year, args.dataset, join(",", args.variables), args.geo>>
        /\ pc \in {"resume", "done"} => Len(gets) = 1 /\ Len(rets) = 1
        /\ pc = "done" => out = rets[1]

C12_Witness ==
    /\ tool = "query_nasa"
    /\ pc = "done"
    /\ args.params # None
    /\ CallerKeys = {"appid", "api_key", "format"}
    /\ args.params[1].api_key = "callers"
    /\ cfg.nasa_api_key = None
    /\ gets[1].params[1].api_key = "DEMO_KEY"
    /\ gets[1].params[1].format = "xml"
    /\ out.kind = "return"
    /\ out.value = rets[1].value

\* The tools that call the NASA API (api.nasa.gov).
NasaApiTools == {"get_astronomy_photo", "get_mars_rover_photos", "query_nasa"}

\* The configured NASA key when there is a non-empty one, else the placeholder.
NasaKey ==
    IF cfg.nasa_api_key \in {None, Some("")} THEN "DEMO_KEY" ELSE cfg.nasa_api_key[1]

CarriesNasaKey(r) ==
    /\ r.params # None
    /\ "api_key" \in DOMAIN r.params[1]
    /\ r.params[1].api_key = NasaKey

\* C13: an astronomy tool is never denied for a missing key: whatever the
\* configuration, get_astronomy_photo, get_mars_rover_photos and query_nasa go
\* to the gateway, and every request they send carries api_key, equal to the
\* configured NASA key when that is non-empty and to "DEMO_KEY" otherwise.
C13_NasaKey ==
    (tool \in NasaApiTools /\ pc # "idle") =>
        /\ pc = "fetch" => CarriesNasaKey(req)
        /\ pc # "fetch" => Len(gets) = 1
        /\ \A i \in DOMAIN gets : CarriesNasaKey(gets[i])

C13_Witness ==
    /\ tool = "get_mars_rover_photos"
    /\ pc = "done"
    /\ cfg.nasa_api_key = Some("")
    /\ Len(gets) = 1
    /\ gets[1].params[1].api_key = "DEMO_KEY"
    /\ gets[1].params[1].sol = DefaultSol
    /\ out.kind = "return"

\* The two invocations were given the same: tool, arguments and upstream
\* responses (the configuration is the one both read).
SameRun ==
    /\ pc = "done"
    /\ sched.suspended.pc = "done"
    /\ tool = sched.suspended.tool
    /\ args = sched.suspended.args
    /\ Len(rets) = Len(sched.suspended.rets)
    /\ \A i \in DOMAIN rets :
         /\ rets[i].kind = sched.suspended.rets[i].kind
         /\ rets[i].kind = "return" => rets[i].value = sched.suspended.rets[i].value

\* One of the two ran alone: it was never suspended in the middle of its run.
OneRanAlone == ~sched.mixed \/ ~sched.suspended.mixed

SameResult ==
    /\ out.kind = sched.suspended.out.kind
    /\ out.kind = "return" => out.value = sched.suspended.out.value
    /\ Len(gets) = Len(sched.suspended.gets)

ForecastRequested == Len(gets) = 2 \/ (pc = "fetch" /\ Len(gets) = 1)

ForecastRequest == IF Len(gets) = 2 THEN gets[2] ELSE req

Requested == pc = "fetch" \/ gets # <<>>

\* C16 as claimed: get_weather_alerts with a state argument whose length is
\* not 2 returns the error text without any GET, and with a 2-character
\* argument issues exactly one GET whose area is the upper-cased argument and
\* shows that upper-cased code in its output.
C16_AsClaimed ==
    (tool = "get_weather_alerts" /\ pc # "idle") =>
        /\ Len(args.state) # 2 =>
             /\ ~Requested
             /\ out = Return(<<Lit("Error: State must be a 2-letter code (e.g., 'CA', 'TX')")>>)
        /\ Len(args.state) = 2 =>
             /\ Requested
             /\ Len(gets) <= 1
             /\ pc = "fetch" => gets = <<>> /\ req.params = Some([area |-> upper(args.state)])
             /\ gets # <<>> => gets[1].params = Some([area |-> upper(args.state)])

\* The line is one of the three kinds that get_country_indicators writes for
\* the indicator: its value, "No data available", or "Error fetching data".
IsIndicatorLine(line, indicator) ==
    \/ Len(line) = 6 /\ line[1] = Lit("- **") /\ line[5] = Lit("): ")
    \/ Len(line) = 3 /\ line[1] = Lit("- **") /\ line[3] = Lit("**: No data available")
    \/ line = <<Lit("- "), Val("str", indicator), Lit(": Error fetching data")>>

\* C17 as claimed: get_country_indicators never fails because of a fetch
\* failure; it issues one GET per indicator in request order, and its output
\* is the header followed by exactly one line per requested indicator in
\* request order: the value, "No data available", or "Error fetching data",
\* the last exactly when the fetch of that indicator failed.
C17_AsClaimed ==
    (tool = "get_country_indicators" /\ pc = "done") =>
        /\ out.kind = "return"
        /\ Len(gets) = Len(loc.indicators)
        /\ \A i \in DOMAIN gets :
             gets[i].url[1] = IndicatorUrl(args.country, loc.indicators[i])
        /\ out.value.items[1][1] = Lit("**Economic Indicators for ")
        /\ Len(out.value.items) = 1 + Len(loc.indicators)
        /\ \A i \in DOMAIN loc.indicators :
             LET line == out.value.items[i + 1] IN
             /\ IsIndicatorLine(line, loc.indicators[i])
             /\ line[Len(line)] = Lit(": Error fetching data") <=> rets[i].kind = "raise"

=============================================================================
